---------------------------- MODULE Spec2Model ----------------------------
(***************************************************************************)
(* Model of the two ingest scripts of the repository:                      *)
(*   scripts/ingest/extract-pdf.py      (parse_sections, main)             *)
(*   scripts/ingest/fix-page-numbers.py (parse_sections_for_pages,         *)
(*                                       fix_embedded_file, main)          *)
(*                                                                         *)
(* A Python str is a sequence of one-character strings; None is the empty  *)
(* option <<>> and a present value x is <<x>> wherever the code may hold   *)
(* None.                                                                   *)
(***************************************************************************)
EXTENDS Integers, Sequences, FiniteSets, TLC

(***************************************************************************)
(* Characters and the str methods the scripts use.                         *)
(***************************************************************************)
NL == "\n"

Digits == {"0", "1", "2", "3", "4", "5", "6", "7", "8", "9"}

UpperSeq == <<"A", "B", "C", "D", "E", "F", "G", "H", "I", "J", "K", "L", "M",
              "N", "O", "P", "Q", "R", "S", "T", "U", "V", "W", "X", "Y", "Z">>

LowerSeq == <<"a", "b", "c", "d", "e", "f", "g", "h", "i", "j", "k", "l", "m",
              "n", "o", "p", "q", "r", "s", "t", "u", "v", "w", "x", "y", "z">>

Letters == {UpperSeq[i] : i \in 1..26} \cup {LowerSeq[i] : i \in 1..26}

Whitespace == {" ", "\t", NL}

DigitVal(c) ==
  CASE c = "0" -> 0 [] c = "1" -> 1 [] c = "2" -> 2 [] c = "3" -> 3
    [] c = "4" -> 4 [] c = "5" -> 5 [] c = "6" -> 6 [] c = "7" -> 7
    [] c = "8" -> 8 [] c = "9" -> 9

\* re.IGNORECASE compares letters by their lower-case form.
LowerChar(c) ==
  IF \E i \in 1..26 : UpperSeq[i] = c
  THEN LowerSeq[CHOOSE i \in 1..26 : UpperSeq[i] = c]
  ELSE c

SetMin(S) == CHOOSE x \in S : \A y \in S : x <= y

SetMax(S) == CHOOSE x \in S : \A y \in S : y <= x

\* The k-th smallest element of a set of integers.
Nth(S, k) == CHOOSE x \in S : Cardinality({y \in S : y < x}) = k - 1

\* str.strip(): leading and trailing whitespace removed.
Strip(s) ==
  LET keep == {i \in 1..Len(s) : s[i] \notin Whitespace}
  IN  IF keep = {} THEN <<>> ELSE SubSeq(s, SetMin(keep), SetMax(keep))

\* str.split(sep) for a one-character separator: always at least one piece.
Split(s, sep) ==
  LET at == {i \in 1..Len(s) : s[i] = sep}
      n  == Cardinality(at)
      cut(k) == IF k = 0 THEN 0 ELSE IF k = n + 1 THEN Len(s) + 1 ELSE Nth(at, k)
  IN  [k \in 1..(n + 1) |-> SubSeq(s, cut(k - 1) + 1, cut(k) - 1)]

RECURSIVE Join(_, _)
\* sep.join(parts)
Join(parts, sep) ==
  IF parts = <<>> THEN <<>>
  ELSE IF Len(parts) = 1 THEN parts[1]
  ELSE parts[1] \o <<sep>> \o Join(Tail(parts), sep)

\* str.count(ch)
Count(s, ch) == Cardinality({i \in 1..Len(s) : s[i] = ch})

\* str.isdigit(): non-empty and every character a digit.
IsDigitStr(s) == Len(s) > 0 /\ \A i \in 1..Len(s) : s[i] \in Digits

RECURSIVE ToInt(_)
\* int(s) of a digit string.
ToInt(s) ==
  IF s = <<>> THEN 0 ELSE 10 * ToInt(SubSeq(s, 1, Len(s) - 1)) + DigitVal(s[Len(s)])

\* str.startswith(prefix), and the same test at position i.
HasAt(s, i, lit) ==
  /\ i >= 1
  /\ i + Len(lit) - 1 <= Len(s)
  /\ SubSeq(s, i, i + Len(lit) - 1) = lit

StartsWith(s, prefix) == HasAt(s, 1, prefix)

(***************************************************************************)
(* Regular-expression pieces.  Each returns the index after what it        *)
(* matched greedily from position i (i itself when it matched nothing).    *)
(***************************************************************************)
\* c* over a character class C.
SpanIn(s, i, C) ==
  LET stop == {j \in i..Len(s) : s[j] \notin C}
  IN  IF stop = {} THEN Len(s) + 1 ELSE SetMin(stop)

\* [^c]* : everything up to the first character of C.
SpanNotIn(s, i, C) ==
  LET stop == {j \in i..Len(s) : s[j] \in C}
  IN  IF stop = {} THEN Len(s) + 1 ELSE SetMin(stop)

RECURSIVE IdEnd(_, _)
\* \d+(?:\.\d+)*  from i: the index after the identifier, 0 when none starts at i.
IdEnd(s, i) ==
  LET j == SpanIn(s, i, Digits)
  IN  IF j = i THEN 0
      ELSE IF j <= Len(s) /\ s[j] = "." /\ IdEnd(s, j + 1) # 0 THEN IdEnd(s, j + 1)
      ELSE j

NoMatch == [ok |-> FALSE, groups |-> <<>>]

Match(gs) == [ok |-> TRUE, groups |-> gs]

StarStar == <<"*", "*">>

AnnexWord == <<"a", "n", "n", "e", "x">>

\* Annex\s+[A-Z] at position i, case-insensitively: the index after it, 0 when absent.
AnnexEnd(s, i) ==
  IF /\ i + 4 <= Len(s)
     /\ [k \in 1..5 |-> LowerChar(s[i + k - 1])] = AnnexWord
  THEN LET t == SpanIn(s, i + 5, Whitespace)
       IN  IF t > i + 5 /\ t <= Len(s) /\ s[t] \in Letters THEN t + 1 ELSE 0
  ELSE 0

\* (?:\(([^)]+)\))? at position i: the group (an option) and the index after it.
Paren(s, i) ==
  LET c == SpanNotIn(s, i + 1, {")"})
  IN  IF i <= Len(s) /\ s[i] = "(" /\ c > i + 1 /\ c <= Len(s)
      THEN [group |-> <<SubSeq(s, i + 1, c - 1)>>, next |-> c + 1]
      ELSE [group |-> <<>>, next |-> i]


(***************************************************************************)
(* extract-pdf.py: the header patterns of parse_sections, matched with     *)
(* re.match(pattern, line.strip(), re.IGNORECASE).  The first group is the *)
(* section identifier, the second the title (None when the optional group  *)
(* of the annex pattern took no part).                                     *)
(***************************************************************************)
\* MatchBold with the title optional: ^\*\*(\d+(?:\.\d+)*)\*\*
MatchBold_IdOnly(s) ==
  LET e == IdEnd(s, 3)
  IN  IF HasAt(s, 1, StarStar) /\ e # 0 /\ HasAt(s, e, StarStar)
      THEN Match(<<SubSeq(s, 3, e - 1), <<>>>>)
      ELSE NoMatch

\* ^\*\*(\d+(?:\.\d+)*)\*\*\s*\*\*([^*]+)\*\*
MatchBold(s) ==
  LET e == IdEnd(s, 3)
      t == SpanIn(s, e + 2, Whitespace)
      u == SpanNotIn(s, t + 2, {"*"})
  IN  IF /\ HasAt(s, 1, StarStar)
         /\ e # 0
         /\ HasAt(s, e, StarStar)
         /\ HasAt(s, t, StarStar)
         /\ u > t + 2
         /\ HasAt(s, u, StarStar)
      THEN Match(<<SubSeq(s, 3, e - 1), <<SubSeq(s, t + 2, u - 1)>>>>)
      ELSE NoMatch

\* ^(\d+(?:\.\d+)*)\s+([A-Z][^\n]+)
MatchPlain(s) ==
  LET e == IdEnd(s, 1)
      t == SpanIn(s, e, Whitespace)
      v == SpanNotIn(s, t + 1, {NL})
  IN  IF /\ e # 0
         /\ t > e
         /\ t <= Len(s)
         /\ s[t] \in Letters
         /\ v > t + 1
      THEN Match(<<SubSeq(s, 1, e - 1), <<SubSeq(s, t, v - 1)>>>>)
      ELSE NoMatch

\* ^\*?(Annex\s+[A-Z])\*?\s*(?:\(([^)]+)\))?\s*(.*)$
MatchAnnex(s) ==
  LET o == IF HasAt(s, 1, <<"*">>) THEN 2 ELSE 1
      e == AnnexEnd(s, o)
      a == IF HasAt(s, e, <<"*">>) THEN e + 1 ELSE e
      p == Paren(s, SpanIn(s, a, Whitespace))
      c == SpanIn(s, p.next, Whitespace)
  IN  IF e # 0
      THEN Match(<<SubSeq(s, o, e - 1), p.group, <<SubSeq(s, c, Len(s))>>>>)
      ELSE NoMatch

\* for pattern in patterns: ... if match: section_match = match; break
SectionMatch(s) ==
  IF MatchBold(s).ok THEN MatchBold(s)
  ELSE IF MatchPlain(s).ok THEN MatchPlain(s)
  ELSE MatchAnnex(s)

AnnexPrefix == <<"A", "n", "n", "e", "x">>

\* Depth counting the dots only.
Depth_DotCount(section_id) ==
  IF StartsWith(section_id, AnnexPrefix) THEN 1 ELSE Count(section_id, ".")

\* depth: 1 for an identifier that starts with "Annex", else its dots plus one.
Depth(section_id) ==
  IF StartsWith(section_id, AnnexPrefix) THEN 1 ELSE Count(section_id, ".") + 1

\* get_parent_section_id
get_parent_section_id(section_id) ==
  LET parts == Split(section_id, ".")
  IN  IF StartsWith(section_id, AnnexPrefix) THEN <<>>
      ELSE IF Len(parts) <= 1 THEN <<>>
      ELSE <<Join(SubSeq(parts, 1, Len(parts) - 1), ".")>>

\* The longest page marker parse_sections reads as a page number.
MaxPageDigits == 4

\* The width of the window in which parse_sections accepts a page marker.
ExtractWindow == 10

\* line.strip().isdigit() and len(line.strip()) <= 4
IsPageCandidate(line) ==
  IsDigitStr(Strip(line)) /\ Len(Strip(line)) <= MaxPageDigits

\* AcceptPage with the upper end of the window included.
AcceptPage_Inclusive(page_num, page) ==
  page_num > page /\ page_num <= page + ExtractWindow

\* AcceptPage without the lower end of the window.
AcceptPage_NoLower(page_num, page) == page_num < page + ExtractWindow

\* page_num > current_page and page_num < current_page + 10
AcceptPage(page_num, page) ==
  page_num > page /\ page_num < page + ExtractWindow

\* current_section["content"] = '\n'.join(current_content).strip()
\* current_section["pageEnd"] = current_page
CloseSection(section, content, page) ==
  [section EXCEPT !.content = Strip(Join(content, NL)), !.pageEnd = page]

\* The section opened at a header match.
OpenSection(m, page) ==
  LET section_id == m.groups[1]
      title == IF Len(m.groups) > 1 THEN m.groups[2] ELSE <<<<>>>>
  IN  [sectionId |-> section_id,
       title     |-> Strip(IF title = <<>> THEN <<>> ELSE title[1]),
       pageStart |-> page,
       pageEnd   |-> page,
       content   |-> <<>>,
       depth     |-> Depth(section_id),
       parentId  |-> get_parent_section_id(section_id)]

\* One pass of the loop body of parse_sections over `line`; st holds the locals.
ParseSectionsStep(st, line) ==
  LET page == IF IsPageCandidate(line) /\ AcceptPage(ToInt(Strip(line)), st.current_page)
              THEN ToInt(Strip(line))
              ELSE st.current_page
      m == SectionMatch(Strip(line))
  IN  IF m.ok
      THEN [current_section |-> <<OpenSection(m, page)>>,
            current_content |-> <<line>>,
            current_page    |-> page,
            sections        |->
              IF st.current_section # <<>>
              THEN Append(st.sections,
                          CloseSection(st.current_section[1], st.current_content, page))
              ELSE st.sections]
      ELSE [current_section |-> st.current_section,
            current_content |-> IF st.current_section # <<>>
                                THEN Append(st.current_content, line)
                                ELSE st.current_content,
            current_page    |-> page,
            sections        |-> st.sections]

\* ParseSectionsEnd without the append after the loop: the last section is forgotten.
ParseSectionsEnd_Forget(st) == st

\* After the loop: the last section is closed and appended.  The list holds the
\* very dict current_section names, so both show the closed section.
ParseSectionsEnd(st) ==
  LET closed == CloseSection(st.current_section[1], st.current_content, st.current_page)
  IN  IF st.current_section # <<>>
      THEN [st EXCEPT !.current_section = <<closed>>,
                      !.sections = Append(st.sections, closed)]
      ELSE st

\* The locals of parse_sections before the loop.
ParseSectionsStart(page) ==
  [current_section |-> <<>>, current_content |-> <<>>,
   current_page |-> page, sections |-> <<>>]

RECURSIVE ParseSectionsFold(_, _, _)
\* The loop from line i on and the return; each step's locals are computed once.
ParseSectionsFold(st, ls, i) ==
  IF i > Len(ls) THEN ParseSectionsEnd(st).sections
  ELSE CHOOSE result \in {ParseSectionsFold(after, ls, i + 1) :
                            after \in {ParseSectionsStep(st, ls[i])}} : TRUE

\* parse_sections(md_text, start_page) as a function of its arguments.
parse_sections(text, page) ==
  ParseSectionsFold(ParseSectionsStart(page), Split(text, NL), 1)

(***************************************************************************)
(* fix-page-numbers.py: parse_sections_for_pages.  The page map is a       *)
(* function from section identifiers to page numbers.                      *)
(***************************************************************************)
\* ^\*\*(\d+(?:\.\d+)*)\*\*\s*\*\*([^*]+)\*\*$
MatchBoldLine(s) ==
  LET e == IdEnd(s, 3)
      t == SpanIn(s, e + 2, Whitespace)
      u == SpanNotIn(s, t + 2, {"*"})
  IN  IF /\ HasAt(s, 1, StarStar)
         /\ e # 0
         /\ HasAt(s, e, StarStar)
         /\ HasAt(s, t, StarStar)
         /\ u > t + 2
         /\ HasAt(s, u, StarStar)
         /\ u + 2 = Len(s) + 1
      THEN Match(<<SubSeq(s, 3, e - 1), <<SubSeq(s, t + 2, u - 1)>>>>)
      ELSE NoMatch

\* ^#+\s*\*\*(\d+(?:\.\d+)*)\.?\s+([^*]+)\*\*$
\* \s+ gives back all but one blank to [^*]+, so the text between the
\* identifier (and its dot) and the closing ** starts with a blank and has
\* at least two characters, none of them a star.
MatchHashLine(s) ==
  LET h == SpanIn(s, 1, {"#"})
      b == SpanIn(s, h, Whitespace)
      e == IdEnd(s, b + 2)
      d == IF HasAt(s, e, <<".">>) THEN e + 1 ELSE e
      u == SpanNotIn(s, d, {"*"})
  IN  IF /\ h > 1
         /\ HasAt(s, b, StarStar)
         /\ e # 0
         /\ d <= Len(s)
         /\ s[d] \in Whitespace
         /\ u >= d + 2
         /\ HasAt(s, u, StarStar)
         /\ u + 2 = Len(s) + 1
      THEN Match(<<SubSeq(s, b + 2, e - 1), <<SubSeq(s, d + 1, u - 1)>>>>)
      ELSE NoMatch

\* ^\*\*(Annex\s+[A-Z])\*\*\s*(?:\*\*)?(?:\(([^)]+)\))?(?:\*\*)?\s*(.*)$
\* Only the first group is read; what follows the closing ** always matches.
MatchAnnexLine(s) ==
  LET e == AnnexEnd(s, 3)
  IN  IF HasAt(s, 1, StarStar) /\ e # 0 /\ HasAt(s, e, StarStar)
      THEN Match(<<SubSeq(s, 3, e - 1)>>)
      ELSE NoMatch

\* for pattern in patterns: ... if match: ...; break
PageSectionMatch(s) ==
  IF MatchBoldLine(s).ok THEN MatchBoldLine(s)
  ELSE IF MatchHashLine(s).ok THEN MatchHashLine(s)
  ELSE MatchAnnexLine(s)

\* toc_pattern: ^\d+(?:\.\d+)*\s+.+\.{2,}\s*\d+$
IsTocLine(s) ==
  LET e == IdEnd(s, 1)
  IN  /\ e # 0
      /\ e <= Len(s)
      /\ s[e] \in Whitespace
      /\ \E d \in (e + 2)..Len(s) : \E r \in (d + 2)..Len(s) : \E q \in r..Len(s) :
           /\ \A k \in d..(r - 1) : s[k] = "."
           /\ \A k \in r..(q - 1) : s[k] \in Whitespace
           /\ \A k \in q..Len(s) : s[k] \in Digits

EcmaHeader == <<"E", "C", "M", "A", "-", "3", "7", "6", " ", "P", "a", "r", "t", " ">>

\* header_pattern: ^ECMA-376 Part \d
IsRunningHeader(s) ==
  /\ StartsWith(s, EcmaHeader)
  /\ Len(s) > Len(EcmaHeader)
  /\ s[Len(EcmaHeader) + 1] \in Digits

\* The width of the window in which parse_sections_for_pages accepts a page marker.
RepairWindow == 50

\* The offset added to the current page when a header is recorded.
TocOffset == 1

\* page_num >= current_page and page_num < current_page + 50
AcceptPageMarker(page_num, page) ==
  page_num >= page /\ page_num < page + RepairWindow

\* Record without the offset: the current page itself is recorded.
Record_NoOffset(pages, section_id, page) ==
  [k \in DOMAIN pages \cup {section_id} |-> IF k = section_id THEN page ELSE pages[k]]

\* section_pages[section_id] = current_page + 1
Record(pages, section_id, page) ==
  [k \in DOMAIN pages \cup {section_id} |->
     IF k = section_id THEN page + TocOffset ELSE pages[k]]

\* One pass of the loop body of parse_sections_for_pages over `line`.
ParsePagesStep(st, line) ==
  LET stripped == Strip(line)
      m == PageSectionMatch(stripped)
  IN  IF IsRunningHeader(stripped) THEN st
      ELSE IF IsDigitStr(stripped) /\ AcceptPageMarker(ToInt(stripped), st.current_page)
      THEN [st EXCEPT !.current_page = ToInt(stripped)]
      ELSE IF IsTocLine(stripped) THEN st
      ELSE IF m.ok
      THEN [st EXCEPT !.section_pages = Record(st.section_pages, m.groups[1], st.current_page)]
      ELSE st

\* The locals of parse_sections_for_pages before the loop.
ParsePagesStart(page) == [current_page |-> page, section_pages |-> <<>>]

RECURSIVE ParsePagesFold(_, _, _)
\* The loop from line i on and the return; each step's locals are computed once.
ParsePagesFold(st, ls, i) ==
  IF i > Len(ls) THEN st.section_pages
  ELSE CHOOSE result \in {ParsePagesFold(after, ls, i + 1) :
                            after \in {ParsePagesStep(st, ls[i])}} : TRUE

\* parse_sections_for_pages(md_text, start_page)
parse_sections_for_pages(text, page) ==
  ParsePagesFold(ParsePagesStart(page), Split(text, NL), 1)

(***************************************************************************)
(* State.  The scanners' locals carry the names they have in the code;     *)
(* the command-line runs add the files they read and write.                *)
(***************************************************************************)
VARIABLES
  tool,             \* which function or script this behaviour runs
  pc,               \* its position
  md_text,          \* parse_sections / parse_sections_for_pages: the argument
  start_page,       \* the argument
  lines,            \* md_text.split('\n')
  idx,              \* index of the next line of the for loop
  current_section,  \* parse_sections: None or the open section
  current_content,  \* parse_sections: the open section's lines
  current_page,     \* both scanners
  sections,         \* parse_sections: the result list
  section_pages,    \* parse_sections_for_pages: the result map
  argv,             \* the scripts' arguments, sys.argv[1:]
  pdf,              \* extract-pdf.py: the file at the PDF path, if any
  out_files,        \* extract-pdf.py: the artifacts written to the output directory
  content_md,       \* fix-page-numbers.py: extracted/part{N}/content.md, if any
  embedded,         \* fix-page-numbers.py: embedded/part{N}-embedded.json, if any
  parts,            \* main: the parts to process
  part_i,           \* main: index of the next part of the for loop
  updated,          \* fix_embedded_file: the update count of the last call
  missing,          \* fix_embedded_file: the missing set of the last call
  writes,           \* the parts whose embedded file this run has written, in order
  log,              \* the "Updated N chunks" lines printed so far, over all runs
  exit_code,        \* None while the script runs, then its exit code
  run               \* the number of runs of the script started

scanVars == <<md_text, start_page, lines, idx, current_section, current_content,
              current_page, sections>>

cliVars == <<argv, pdf, out_files, content_md, embedded, parts, part_i, updated,
             missing, writes, log, exit_code, run>>

vars == <<tool, pc, scanVars, section_pages, cliVars>>

(***************************************************************************)
(* Inputs of the scanners: texts of at most MaxLines lines drawn from a    *)
(* set of lines that has every kind of line the scanners tell apart.       *)
(***************************************************************************)
MaxLines == 3

\* "**1.2.3** **T**"
LineBold3 == <<"*", "*", "1", ".", "2", ".", "3", "*", "*", " ", "*", "*", "T", "*", "*">>

\* " 3 Ab"
LinePlain == <<" ", "3", " ", "A", "b">>

\* "annex b"
LineAnnexLower == <<"a", "n", "n", "e", "x", " ", "b">>

\* "*Annex A* (n)"
LineAnnex == <<"*", "A", "n", "n", "e", "x", " ", "A", "*", " ", "(", "n", ")">>

LineBlank == <<>>

\* "x "
LineText == <<"x", " ">>

\* "**1.2** **T**"
LineBold2 == <<"*", "*", "1", ".", "2", "*", "*", " ", "*", "*", "T", "*", "*">>

\* "**1.2** **T** x"
LineBoldTrail == LineBold2 \o <<" ", "x">>

\* "# **3. U**"
LineHash == <<"#", " ", "*", "*", "3", ".", " ", "U", "*", "*">>

\* "**Annex A**"
LineAnnexBold == <<"*", "*", "A", "n", "n", "e", "x", " ", "A", "*", "*">>

\* "ECMA-376 Part 1"
LineRunning == EcmaHeader \o <<"1">>

\* "1 T..3"
LineToc == <<"1", " ", "T", ".", ".", "3">>

ExtractLines ==
  {LineBold3, LinePlain, LineAnnexLower, LineAnnex, LineBlank, LineText,
   <<"2">>, <<"1", "1">>, <<"1", "2", "3", "4", "5">>}

RepairLines ==
  {LineBold2, LineBoldTrail, LineHash, LineAnnexBold, LineRunning, LineToc,
   LineText, <<"2">>, <<"5", "1">>}

StartPages == {1, 3}

\* Sequences over S of length at most n.
SeqsUpTo(S, n) == UNION {[1..k -> S] : k \in 0..n}

\* The end-to-end example's six-line text, and the same with each identifier
\* and its title on one line.
\* "**12.3**", "**Overview**", "Some text", "**12.4**", "**Details**", "More text"
ExampleSplit ==
  Join(<< <<"*", "*", "1", "2", ".", "3", "*", "*">>,
          <<"*", "*", "O", "v", "e", "r", "v", "i", "e", "w", "*", "*">>,
          <<"S", "o", "m", "e", " ", "t", "e", "x", "t">>,
          <<"*", "*", "1", "2", ".", "4", "*", "*">>,
          <<"*", "*", "D", "e", "t", "a", "i", "l", "s", "*", "*">>,
          <<"M", "o", "r", "e", " ", "t", "e", "x", "t">> >>, NL)

\* "**12.3** **Overview**", "Some text", "**12.4** **Details**", "More text"
ExampleJoined ==
  Join(<< <<"*", "*", "1", "2", ".", "3", "*", "*", " ",
            "*", "*", "O", "v", "e", "r", "v", "i", "e", "w", "*", "*">>,
          <<"S", "o", "m", "e", " ", "t", "e", "x", "t">>,
          <<"*", "*", "1", "2", ".", "4", "*", "*", " ",
            "*", "*", "D", "e", "t", "a", "i", "l", "s", "*", "*">>,
          <<"M", "o", "r", "e", " ", "t", "e", "x", "t">> >>, NL)

ExtractTexts ==
  {Join(ls, NL) : ls \in SeqsUpTo(ExtractLines, MaxLines)}
    \cup {ExampleSplit, ExampleJoined}

RepairTexts == {Join(ls, NL) : ls \in SeqsUpTo(RepairLines, MaxLines)}

(***************************************************************************)
(* The scanners as state machines: one step per line of the for loop.      *)
(***************************************************************************)
InitScan ==
  /\ tool \in {"parse_sections", "parse_sections_for_pages"}
  /\ md_text \in (IF tool = "parse_sections" THEN ExtractTexts ELSE RepairTexts)
  /\ start_page \in StartPages
  /\ lines = Split(md_text, NL)
  /\ idx = 1
  /\ current_section = <<>>
  /\ current_content = <<>>
  /\ current_page = start_page
  /\ sections = <<>>
  /\ section_pages = <<>>
  /\ pc = "loop"
  /\ argv = <<>>
  /\ pdf = <<>>
  /\ out_files = <<>>
  /\ content_md = <<>>
  /\ embedded = <<>>
  /\ parts = <<>>
  /\ part_i = 1
  /\ updated = 0
  /\ missing = {}
  /\ writes = <<>>
  /\ log = <<>>
  /\ exit_code = <<>>
  /\ run = 0

\* parse_sections: the loop body for lines[idx].
ExtractLine ==
  /\ tool = "parse_sections"
  /\ pc = "loop"
  /\ idx <= Len(lines)
  /\ \E st \in {ParseSectionsStep(
                 [current_section |-> current_section,
                  current_content |-> current_content,
                  current_page |-> current_page,
                  sections |-> sections], lines[idx])} :
         /\ current_section' = st.current_section
         /\ current_content' = st.current_content
         /\ current_page' = st.current_page
         /\ sections' = st.sections
  /\ idx' = idx + 1
  /\ UNCHANGED <<tool, pc, md_text, start_page, lines, section_pages, cliVars>>

\* parse_sections: after the loop, the last section is appended and the list returned.
ExtractReturn ==
  /\ tool = "parse_sections"
  /\ pc = "loop"
  /\ idx > Len(lines)
  /\ \E st \in {ParseSectionsEnd(
                 [current_section |-> current_section,
                  current_content |-> current_content,
                  current_page |-> current_page,
                  sections |-> sections])} :
         /\ current_section' = st.current_section
         /\ sections' = st.sections
  /\ pc' = "done"
  /\ UNCHANGED <<tool, md_text, start_page, lines, idx, current_content,
                 current_page, section_pages, cliVars>>

\* parse_sections_for_pages: the loop body for lines[idx].
RepairLine ==
  /\ tool = "parse_sections_for_pages"
  /\ pc = "loop"
  /\ idx <= Len(lines)
  /\ \E st \in {ParsePagesStep(
                 [current_page |-> current_page, section_pages |-> section_pages],
                 lines[idx])} :
         /\ current_page' = st.current_page
         /\ section_pages' = st.section_pages
  /\ idx' = idx + 1
  /\ UNCHANGED <<tool, pc, md_text, start_page, lines, current_section,
                 current_content, sections, cliVars>>

\* parse_sections_for_pages: return section_pages.
RepairReturn ==
  /\ tool = "parse_sections_for_pages"
  /\ pc = "loop"
  /\ idx > Len(lines)
  /\ pc' = "done"
  /\ UNCHANGED <<tool, scanVars, section_pages, cliVars>>

Init == InitScan

Next == ExtractLine \/ ExtractReturn \/ RepairLine \/ RepairReturn

Spec == Init /\ [][Next]_vars

(***************************************************************************)
(* Properties of parse_sections.                                           *)
(***************************************************************************)
IsHeaderLine(line) == SectionMatch(Strip(line)).ok

\* The indices of the header lines of the text, and the k-th of them; one past
\* the last line stands for the end of the text.
HeaderAt == {i \in 1..Len(lines) : IsHeaderLine(lines[i])}

BlockStart(k) ==
  IF k > Cardinality(HeaderAt) THEN Len(lines) + 1 ELSE Nth(HeaderAt, k)

\* The lines from the k-th header up to the line before the next header.
Block(k) == SubSeq(lines, BlockStart(k), BlockStart(k + 1) - 1)

Contents == [k \in 1..Len(sections) |-> sections[k].content]

Returned == tool = "parse_sections" /\ pc = "done"

\* C1 as stated: the contents of the returned sections, joined in order line
\* after line, are the text from the first header line to the end of the input.
C1_ContentsReconstructText ==
  Returned =>
    IF HeaderAt = {} THEN sections = <<>>
    ELSE Join(Contents, NL) = Join(SubSeq(lines, BlockStart(1), Len(lines)), NL)

\* C1 amended: there is one returned section per header line, in order, and the
\* content of the k-th is the lines from the k-th header line up to the line
\* before the next header line (or the end of the input), joined by newlines and
\* stripped of leading and trailing whitespace.  The blocks cover every line
\* from the first header on exactly once; what is lost is only the whitespace
\* (blank lines included) at the two ends of each block.
C1_ContentsAreStrippedBlocks ==
  Returned =>
    /\ Len(sections) = Cardinality(HeaderAt)
    /\ \A k \in 1..Len(sections) : sections[k].content = Strip(Join(Block(k), NL))

\* A returned list of two sections or more, one of which lost whitespace to strip().
C1_Witness ==
  /\ Returned
  /\ Len(sections) >= 2
  /\ \E k \in 1..Len(sections) : sections[k].content # Join(Block(k), NL)

Str12 == <<"1", "2">>

Str12_3 == <<"1", "2", ".", "3">>

Str12_4 == <<"1", "2", ".", "4">>

IsExampleSection(s, id) ==
  /\ s.sectionId = id
  /\ s.depth = 2
  /\ s.parentId = <<Str12>>
  /\ s.pageStart = 1
  /\ s.pageEnd = 1

TwoExampleSections ==
  /\ Len(sections) = 2
  /\ IsExampleSection(sections[1], Str12_3)
  /\ IsExampleSection(sections[2], Str12_4)

\* C2 as stated: the six-line text, identifier and title on separate lines, with
\* start page 1 gives the sections 12.3 and 12.4.
C2_SplitExampleGivesTwoSections ==
  (Returned /\ md_text = ExampleSplit /\ start_page = 1) => TwoExampleSections

\* C2 amended: with start page 1 the six-line text gives no section, because no
\* line of it matches a header pattern (the bold pattern wants the identifier
\* and the title on one line); the four-line text with each identifier and its
\* title on one line gives the sections 12.3 and 12.4, each of depth 2, parent
\* 12, pageStart 1 and pageEnd 1.
C2_ExampleSections ==
  (Returned /\ start_page = 1) =>
    /\ md_text = ExampleSplit => sections = <<>>
    /\ md_text = ExampleJoined => TwoExampleSections

\* parse_sections has returned on the six-line text with start page 1.
C2_Witness == Returned /\ md_text = ExampleSplit /\ start_page = 1

IsNumericId(id) == id # <<>> /\ id[1] \in Digits

\* The number of dotted components: the digit runs of the identifier.
Components(id) ==
  Cardinality({i \in 1..Len(id) : id[i] \in Digits /\ (i = 1 \/ id[i - 1] = ".")})

\* The identifier up to its last dot.
WithoutLastComponent(id) ==
  SubSeq(id, 1, SetMax({i \in 1..Len(id) : id[i] = "."}) - 1)

DepthParentRule(s) ==
  IF IsNumericId(s.sectionId)
  THEN /\ s.depth = Components(s.sectionId)
       /\ s.parentId = IF Components(s.sectionId) = 1 THEN <<>>
                       ELSE <<WithoutLastComponent(s.sectionId)>>
  ELSE s.depth = 1 /\ s.parentId = <<>>

\* C7: every section of parse_sections, open or appended, has depth 1 and no
\* parent when its identifier is an annex label, and otherwise depth the number
\* of its dotted components and as parent the identifier without its last
\* component (none for a single component).
C7_DepthAndParent ==
  tool = "parse_sections" =>
    /\ \A k \in 1..Len(sections) : DepthParentRule(sections[k])
    /\ current_section # <<>> => DepthParentRule(current_section[1])

\* Returned: a section of three components and an annex written in lower case.
C7_Witness ==
  /\ Returned
  /\ \E k \in 1..Len(sections) : sections[k].depth = 3
  /\ \E k \in 1..Len(sections) : sections[k].sectionId[1] = "a"

PageChain ==
  /\ current_page >= start_page
  /\ \A k \in 1..Len(sections) : sections[k].pageStart <= sections[k].pageEnd
  /\ sections # <<>> => sections[1].pageStart >= start_page
  /\ \A k \in 1..(Len(sections) - 1) : sections[k].pageEnd = sections[k + 1].pageStart
  /\ current_section # <<>> =>
       /\ current_section[1].pageStart <= current_page
       /\ (pc = "loop" /\ sections # <<>>) =>
            sections[Len(sections)].pageEnd = current_section[1].pageStart

\* C10: in parse_sections the current page never decreases and never is below
\* the start page; every section has pageStart <= pageEnd, the first starts at
\* the start page or later, and each section ends on the page the next starts on.
C10_PageChain ==
  /\ [](tool = "parse_sections" => PageChain)
  /\ [][tool = "parse_sections" => current_page' >= current_page]_vars

\* Returned: two sections or more, the first ending on a later page than it starts.
C10_Witness ==
  /\ Returned
  /\ Len(sections) >= 2
  /\ sections[1].pageStart < sections[1].pageEnd

(***************************************************************************)
(* Properties of both scanners and of parse_sections_for_pages.            *)
(***************************************************************************)
AtLine == pc = "loop" /\ idx <= Len(lines)

InWindow(c, p, w) == p <= c /\ c < p + w

\* C3: when a digit-only line of value c is scanned at current page P, the
\* current page becomes c only if P <= c < P + 10 in parse_sections, P + 50 in
\* parse_sections_for_pages, and stays P for every c outside that window.
C3_PageWindow ==
  [][(AtLine /\ IsDigitStr(Strip(lines[idx]))) =>
       LET c == ToInt(Strip(lines[idx]))
           w == IF tool = "parse_sections" THEN 10 ELSE 50
       IN  /\ current_page' = c => InWindow(c, current_page, w)
           /\ ~InWindow(c, current_page, w) => current_page' = current_page]_vars

\* Two digit-only lines scanned: the first moved the current page, the second
\* was outside the window and left it.
C3_Witness ==
  /\ pc = "loop"
  /\ idx = 3
  /\ IsDigitStr(Strip(lines[1]))
  /\ IsDigitStr(Strip(lines[2]))
  /\ start_page < ToInt(Strip(lines[1]))
  /\ current_page = ToInt(Strip(lines[1]))
  /\ ToInt(Strip(lines[2])) >= current_page + 50

\* The lines parse_sections_for_pages takes for headers: not skipped as a running
\* header, a page marker or a table-of-contents entry, and matching a pattern.
IsPageHeaderLine(line) ==
  /\ ~IsRunningHeader(Strip(line))
  /\ ~IsDigitStr(Strip(line))
  /\ ~IsTocLine(Strip(line))
  /\ PageSectionMatch(Strip(line)).ok

PageHeaderId(line) == PageSectionMatch(Strip(line)).groups[1]

\* C4: the map of parse_sections_for_pages holds exactly the identifiers of the
\* header lines scanned so far; scanning a header line at current page P sets
\* its identifier's entry to P + 1, over an earlier entry if there is one, and
\* leaves the other entries; scanning any other line leaves the map.
C4_PageMap ==
  /\ [](tool = "parse_sections_for_pages" =>
          DOMAIN section_pages =
            {PageHeaderId(lines[i]) : i \in {j \in 1..(idx - 1) : IsPageHeaderLine(lines[j])}})
  /\ [][(tool = "parse_sections_for_pages" /\ AtLine) =>
          IF IsPageHeaderLine(lines[idx])
          THEN /\ section_pages'[PageHeaderId(lines[idx])] = current_page + 1
               /\ current_page' = current_page
               /\ \A id \in DOMAIN section_pages \ {PageHeaderId(lines[idx])} :
                    section_pages'[id] = section_pages[id]
          ELSE section_pages' = section_pages]_vars

\* Returned: an identifier met twice with a page marker between, mapped to the
\* page after the current page of its second occurrence.
C4_Witness ==
  /\ tool = "parse_sections_for_pages"
  /\ pc = "done"
  /\ Len(lines) = 3
  /\ IsPageHeaderLine(lines[1])
  /\ IsPageHeaderLine(lines[3])
  /\ PageHeaderId(lines[1]) = PageHeaderId(lines[3])
  /\ current_page > start_page
  /\ section_pages[PageHeaderId(lines[3])] = current_page + 1

(***************************************************************************)
(* fix-page-numbers.py: fix_embedded_file and main.  A chunk is a function *)
(* from its JSON keys to their values; a file is None (absent) or its      *)
(* content.                                                                *)
(***************************************************************************)
\* chunk.get("sectionId")
SectionIdOf(chunk) ==
  IF "sectionId" \in DOMAIN chunk THEN <<chunk.sectionId>> ELSE <<>>

\* section_id and section_id in section_pages
IsMapped(chunk, pages) ==
  /\ SectionIdOf(chunk) # <<>>
  /\ chunk.sectionId # <<>>
  /\ chunk.sectionId \in DOMAIN pages

\* NeedsUpdate without the comparison: every mapped chunk counts as updated.
NeedsUpdate_Always(chunk, pages) == IsMapped(chunk, pages)

\* old_page != new_page, for a mapped chunk
NeedsUpdate(chunk, pages) ==
  /\ IsMapped(chunk, pages)
  /\ \/ "pageNumber" \notin DOMAIN chunk
     \/ chunk.pageNumber # pages[chunk.sectionId]

\* PatchChunk that rebuilds the chunk from the two keys it reads.
PatchChunk_DropFields(chunk, pages) ==
  IF NeedsUpdate(chunk, pages)
  THEN [sectionId |-> chunk.sectionId, pageNumber |-> pages[chunk.sectionId]]
  ELSE chunk

\* chunk["pageNumber"] = new_page
PatchChunk(chunk, pages) ==
  IF NeedsUpdate(chunk, pages)
  THEN [k \in DOMAIN chunk \cup {"pageNumber"} |->
          IF k = "pageNumber" THEN pages[chunk.sectionId] ELSE chunk[k]]
  ELSE chunk

\* elif section_id: missing.add(section_id)
IsMissing(chunk, pages) ==
  /\ SectionIdOf(chunk) # <<>>
  /\ chunk.sectionId # <<>>
  /\ chunk.sectionId \notin DOMAIN pages

\* content_path.exists(), embedded_path.exists()
FilesPresent(files, part) == part \in DOMAIN files /\ files[part] # <<>>

\* fix_embedded_file after the files are read: the chunks it writes back, the
\* update count and the missing set.
PatchChunks(chunks, pages) ==
  [chunks  |-> [i \in 1..Len(chunks) |-> PatchChunk(chunks[i], pages)],
   updated |-> Cardinality({i \in 1..Len(chunks) : NeedsUpdate(chunks[i], pages)}),
   missing |-> {chunks[i].sectionId :
                  i \in {j \in 1..Len(chunks) : IsMissing(chunks[j], pages)}}]

ArgAll == <<"a", "l", "l">>

\* ParseParts with range(1, 4) for "all".
ParseParts_ShortRange(args) ==
  IF args = <<>> THEN <<>>
  ELSE IF args[1] = ArgAll THEN <<<<1, 2, 3>>>>
  ELSE IF IsDigitStr(Strip(args[1])) THEN <<<<ToInt(Strip(args[1]))>>>>
  ELSE <<>>

\* main: the parts the argument names; None when main exits with code 1 instead
\* (no argument, or int(arg) raises ValueError).
ParseParts(args) ==
  IF args = <<>> THEN <<>>
  ELSE IF args[1] = ArgAll THEN <<<<1, 2, 3, 4>>>>
  ELSE IF IsDigitStr(Strip(args[1])) THEN <<<<ToInt(Strip(args[1]))>>>>
  ELSE <<>>

\* AfterPart with the test inverted: if fix_embedded_file(part): sys.exit(1)
AfterPart_Inverted(ok) ==
  IF ok THEN [pc |-> "exit", exit_code |-> <<1>>] ELSE [pc |-> "loop", exit_code |-> <<>>]

\* if not fix_embedded_file(part): sys.exit(1)
AfterPart(ok) ==
  IF ok THEN [pc |-> "loop", exit_code |-> <<>>] ELSE [pc |-> "exit", exit_code |-> <<1>>]

\* main, up to the for loop.
FixStart ==
  /\ tool = "fix_page_numbers"
  /\ pc = "main"
  /\ IF ParseParts(argv) = <<>>
     THEN pc' = "exit" /\ exit_code' = <<1>> /\ parts' = <<>>
     ELSE pc' = "loop" /\ exit_code' = <<>> /\ parts' = ParseParts(argv)[1]
  /\ part_i' = 1
  /\ UNCHANGED <<tool, scanVars, section_pages, argv, pdf, out_files, content_md,
                 embedded, updated, missing, writes, log, run>>

\* main: one pass of the for loop, a whole call of fix_embedded_file, which
\* returns False when a file of the part is absent and otherwise parses
\* content.md, patches the chunks, writes them back and returns True.
FixPart ==
  /\ tool = "fix_page_numbers"
  /\ pc = "loop"
  /\ part_i <= Len(parts)
  /\ \E part \in {parts[part_i]} :
     \E ok \in {FilesPresent(content_md, part) /\ FilesPresent(embedded, part)} :
       /\ pc' = AfterPart(ok).pc
       /\ exit_code' = AfterPart(ok).exit_code
       /\ part_i' = IF AfterPart(ok).pc = "loop" THEN part_i + 1 ELSE part_i
       /\ IF ok
          THEN \E pages \in {parse_sections_for_pages(content_md[part][1], 1)} :
               \E r \in {PatchChunks(embedded[part][1], pages)} :
                 /\ section_pages' = pages
                 /\ embedded' = [embedded EXCEPT ![part] = <<r.chunks>>]
                 /\ updated' = r.updated
                 /\ missing' = r.missing
                 /\ writes' = Append(writes, part)
                 /\ log' = Append(log, [part |-> part, updated |-> r.updated])
          ELSE UNCHANGED <<section_pages, embedded, updated, missing, writes, log>>
  /\ UNCHANGED <<tool, scanVars, argv, pdf, out_files, content_md, parts, run>>

\* main: after the loop, "All done!" and a normal return.
FixDone ==
  /\ tool = "fix_page_numbers"
  /\ pc = "loop"
  /\ part_i > Len(parts)
  /\ pc' = "exit"
  /\ exit_code' = <<0>>
  /\ UNCHANGED <<tool, scanVars, section_pages, argv, pdf, out_files, content_md,
                 embedded, parts, part_i, updated, missing, writes, log, run>>

\* The number of runs of fix-page-numbers.py in a behaviour.
MaxRuns == 2

\* The script is run again with the same argument on the files the last run left.
FixAgain ==
  /\ tool = "fix_page_numbers"
  /\ pc = "exit"
  /\ run < MaxRuns
  /\ run' = run + 1
  /\ pc' = "main"
  /\ exit_code' = <<>>
  /\ parts' = <<>>
  /\ part_i' = 1
  /\ writes' = <<>>
  /\ UNCHANGED <<tool, scanVars, section_pages, argv, pdf, out_files, content_md,
                 embedded, updated, missing, log>>

(***************************************************************************)
(* extract-pdf.py: main and extract_pdf.  The converter is opaque: the PDF *)
(* file carries its page count, the markdown the converter makes of it and *)
(* whether the converter raises on it.                                     *)
(***************************************************************************)
\* start, end = args[3].split("-"); page_range = (int(start), int(end))
\* None when that raises ValueError.
ParseRange(arg) ==
  LET pieces == Split(arg, "-")
  IN  IF /\ Len(pieces) = 2
         /\ IsDigitStr(Strip(pieces[1]))
         /\ IsDigitStr(Strip(pieces[2]))
      THEN <<<<ToInt(Strip(pieces[1])), ToInt(Strip(pieces[2]))>>>>
      ELSE <<>>

Min2(a, b) == IF a < b THEN a ELSE b

\* len(pages) if pages else total_pages, for pages = range(start - 1, min(end, total))
ProcessedPages(page_range, total_pages) ==
  LET n == IF page_range = <<>> THEN 0
           ELSE Min2(page_range[1][2], total_pages) - (page_range[1][1] - 1)
  IN  IF n > 0 THEN n ELSE total_pages

\* The section index: each section without its content, with the content's length.
SectionIndex(secs) ==
  [k \in 1..Len(secs) |->
     [sectionId     |-> secs[k].sectionId,
      title         |-> secs[k].title,
      depth         |-> secs[k].depth,
      parentId      |-> secs[k].parentId,
      pageStart     |-> secs[k].pageStart,
      pageEnd       |-> secs[k].pageEnd,
      contentLength |-> Len(secs[k].content)]]

\* extract_pdf on a file the converter reads: the four artifacts, in the order written.
extract_pdf(file, page_range) ==
  CHOOSE written \in {
    << [name |-> "content.md", data |-> file.md_text],
         [name |-> "sections.json", data |-> secs],
         [name |-> "section-index.json", data |-> SectionIndex(secs)],
         [name |-> "metadata.json",
          data |-> [totalPages     |-> file.total_pages,
                    processedPages |-> ProcessedPages(page_range, file.total_pages),
                    pageRange      |-> page_range,
                    sectionsFound  |-> Len(secs),
                    contentLength  |-> Len(file.md_text)]] >> :
    secs \in {parse_sections(file.md_text,
                             IF page_range = <<>> THEN 1 ELSE page_range[1][1])} } : TRUE

\* os.path.exists(pdf_path)
PdfFound(file) == file # <<>>

\* main of extract-pdf.py: its exit code and the artifacts it wrote.
ExtractPdfMain(args, file) ==
  LET ranged     == Len(args) > 2 /\ args[3] = "--pages" /\ Len(args) > 3
      page_range == IF ranged THEN ParseRange(args[4]) ELSE <<>>
  IN  IF Len(args) < 2 THEN [exit_code |-> <<1>>, files |-> <<>>]
      ELSE IF ranged /\ page_range = <<>> THEN [exit_code |-> <<1>>, files |-> <<>>]
      ELSE IF ~PdfFound(file) THEN [exit_code |-> <<1>>, files |-> <<>>]
      ELSE IF file = <<>> \/ ~file[1].converts THEN [exit_code |-> <<1>>, files |-> <<>>]
      ELSE [exit_code |-> <<0>>, files |-> extract_pdf(file[1], page_range)]

\* One run of extract-pdf.py.
ExtractMain ==
  /\ tool = "extract_pdf"
  /\ pc = "main"
  /\ pc' = "exit"
  /\ \E r \in {ExtractPdfMain(argv, pdf)} :
       /\ exit_code' = r.exit_code
       /\ out_files' = r.files
  /\ UNCHANGED <<tool, scanVars, section_pages, argv, pdf, content_md, embedded,
                 parts, part_i, updated, missing, writes, log, run>>

(***************************************************************************)
(* Inputs of the scripts.                                                  *)
(***************************************************************************)
MaxChunks == 3

Id1_2 == <<"1", ".", "2">>

Id3 == <<"3">>

Id9 == <<"9">>

ChunkSet ==
  { [sectionId |-> Id1_2, pageNumber |-> 2, text |-> "a"],
    [sectionId |-> Id1_2, pageNumber |-> 9, text |-> "b"],
    [sectionId |-> Id1_2, text |-> "c"],
    [sectionId |-> Id3, pageNumber |-> 5, text |-> "d"],
    [sectionId |-> Id9, pageNumber |-> 7, text |-> "e"],
    [pageNumber |-> 4, text |-> "f"],
    [sectionId |-> <<>>, pageNumber |-> 4, text |-> "g"] }

\* content.md texts: one header; a page marker and two headers; no header.
PatchTexts ==
  {LineBold2, Join(<< <<"4">>, LineBold2, LineHash >>, NL), LineText}

\* The arguments fix-page-numbers.py is run with.
FixArgvs == {<<>>, <<ArgAll>>, <<<<"1">>>>, <<<<"3">>>>, <<<<"7">>>>, <<<<"x">>>>}

AllParts == 1..4

\* Any of the eight files may be absent; those present hold one fixed content.
InitFixFiles ==
  /\ tool = "fix_page_numbers"
  /\ argv \in FixArgvs
  /\ content_md \in [AllParts -> {<<>>, <<LineBold2>>}]
  /\ embedded \in [AllParts -> {<<>>, << <<[sectionId |-> Id1_2, pageNumber |-> 9, text |-> "b"]>> >>}]
  /\ pdf = <<>>

\* All files present; part 1 holds any text and any chunks of the input sets.
InitFixChunks ==
  /\ tool = "fix_page_numbers"
  /\ argv = <<<<"1">>>>
  /\ \E text \in PatchTexts :
       content_md = [part \in AllParts |-> IF part = 1 THEN <<text>> ELSE <<LineText>>]
  /\ \E chunks \in SeqsUpTo(ChunkSet, MaxChunks) :
       embedded = [part \in AllParts |-> IF part = 1 THEN <<chunks>> ELSE << <<>> >>]
  /\ pdf = <<>>

PdfTotalPages == 3

ExtractArgvs ==
  { <<"in.pdf">>,
    <<"in.pdf", "out">>,
    <<"in.pdf", "out", "--pages">>,
    <<"in.pdf", "out", "--pages", <<"2", "-", "3">>>>,
    <<"in.pdf", "out", "--pages", <<"2", "-", "9">>>>,
    <<"in.pdf", "out", "--pages", <<"2">>>>,
    <<"in.pdf", "out", "--pages", <<"a", "-", "3">>>> }

InitExtract ==
  /\ tool = "extract_pdf"
  /\ argv \in ExtractArgvs
  /\ pdf \in {<<>>} \cup
       { <<[total_pages |-> PdfTotalPages, md_text |-> text, converts |-> c]>> :
           text \in {ExampleJoined, ExampleSplit}, c \in BOOLEAN }
  /\ content_md = <<>>
  /\ embedded = <<>>

InitCli ==
  /\ InitFixFiles \/ InitFixChunks \/ InitExtract
  /\ pc = "main"
  /\ out_files = <<>>
  /\ parts = <<>>
  /\ part_i = 1
  /\ updated = 0
  /\ missing = {}
  /\ writes = <<>>
  /\ log = <<>>
  /\ exit_code = <<>>
  /\ run = 1
  /\ md_text = <<>>
  /\ start_page = 1
  /\ lines = <<>>
  /\ idx = 1
  /\ current_section = <<>>
  /\ current_content = <<>>
  /\ current_page = 1
  /\ sections = <<>>
  /\ section_pages = <<>>

NextCli == FixStart \/ FixPart \/ FixDone \/ FixAgain \/ ExtractMain

SpecCli == InitCli /\ [][NextCli]_vars

(***************************************************************************)
(* Properties of fix-page-numbers.py and of the scripts' runs.             *)
(***************************************************************************)
FixRunning == tool = "fix_page_numbers"

PartPresent(part) == FilesPresent(content_md, part) /\ FilesPresent(embedded, part)

\* main is about to call fix_embedded_file on a part whose two files exist.
AtPatch ==
  /\ FixRunning
  /\ pc = "loop"
  /\ part_i <= Len(parts)
  /\ PartPresent(parts[part_i])

\* C5: when fix_embedded_file patches a part that an earlier run has patched
\* already (content.md, and so the page map, being the same), its update count
\* is zero and the chunk collection it writes is the one it read.
C5_SecondPatchChangesNothing ==
  [][(AtPatch /\ \E k \in 1..Len(log) : log[k].part = parts[part_i]) =>
       /\ updated' = 0
       /\ log'[Len(log')].updated = 0
       /\ embedded' = embedded]_vars

\* The same part patched by two runs, the first of which updated a chunk.
C5_Witness ==
  /\ FixRunning
  /\ Len(log) = 2
  /\ log[1].part = log[2].part
  /\ log[1].updated > 0

\* A chunk has an identifier when its sectionId is present and not empty.
HasIdentifier(chunk) == "sectionId" \in DOMAIN chunk /\ chunk.sectionId # <<>>

InMap(chunk, pages) == HasIdentifier(chunk) /\ chunk.sectionId \in DOMAIN pages

OtherKeys(chunk) == DOMAIN chunk \ {"pageNumber"}

\* C6: the collection fix_embedded_file writes has the length and order of the
\* one it read; a chunk whose identifier is in the page map has the mapped page
\* number; a chunk whose identifier is not in the map, or that has none, is
\* unchanged; every key but pageNumber keeps its value; the update count is the
\* number of chunks that changed and the missing set is the identifiers of the
\* chunks that the map lacks.  No other part's file is written.
C6_PatchFrame ==
  [][AtPatch =>
       LET part  == parts[part_i]
           old   == embedded[part][1]
           new   == embedded'[part][1]
           pages == section_pages'
       IN  /\ Len(new) = Len(old)
           /\ \A i \in 1..Len(old) :
                /\ InMap(old[i], pages) =>
                     /\ "pageNumber" \in DOMAIN new[i]
                     /\ new[i].pageNumber = pages[old[i].sectionId]
                /\ ~InMap(old[i], pages) => new[i] = old[i]
                /\ OtherKeys(new[i]) = OtherKeys(old[i])
                /\ \A k \in OtherKeys(old[i]) : new[i][k] = old[i][k]
           /\ updated' = Cardinality({i \in 1..Len(old) : new[i] # old[i]})
           /\ missing' = {old[i].sectionId :
                            i \in {j \in 1..Len(old) :
                                     HasIdentifier(old[j]) /\ ~InMap(old[j], pages)}}
           /\ \A other \in DOMAIN embedded \ {part} : embedded'[other] = embedded[other]]_vars

\* A patch that updated a chunk, found an identifier missing from the map and
\* met a chunk with no identifier.
C6_Witness ==
  /\ FixRunning
  /\ writes = <<1>>
  /\ updated >= 1
  /\ missing # {}
  /\ \E i \in 1..Len(embedded[1][1]) : ~HasIdentifier(embedded[1][1][i])

RunsAll == FixRunning /\ argv = <<ArgAll>>

\* C8: in a run on "all" the parts are processed in the order 1, 2, 3, 4, each
\* only after the ones before it were processed; at the first part with a file
\* missing the run exits with code 1 and writes nothing more; it exits with code
\* 0 only when all four parts were processed.
C8_AllPartsInOrder ==
  /\ [](RunsAll =>
          /\ writes = [k \in 1..Len(writes) |-> k]
          /\ Len(writes) <= 4
          /\ \A k \in 1..Len(writes) : PartPresent(k)
          /\ pc = "loop" => part_i = Len(writes) + 1
          /\ exit_code = <<1>> => Len(writes) < 4 /\ ~PartPresent(Len(writes) + 1)
          /\ exit_code = <<0>> => writes = <<1, 2, 3, 4>>)
  /\ [][(RunsAll /\ pc = "loop" /\ part_i <= Len(parts) /\ ~PartPresent(parts[part_i])) =>
          /\ pc' = "exit"
          /\ exit_code' = <<1>>
          /\ embedded' = embedded
          /\ writes' = writes]_vars

\* A run on "all" that processed parts 1 and 2 and exited with code 1 at part 3.
C8_Witness == RunsAll /\ pc = "exit" /\ exit_code = <<1>> /\ writes = <<1, 2>>

\* The run of fix-page-numbers.py ended on a missing file: it had parsed its
\* argument and exited with code 1.
EndedOnMissingFile == FixRunning /\ pc = "exit" /\ exit_code = <<1>> /\ parts # <<>>

ExtractorWroteNothingWithoutPdf ==
  (tool = "extract_pdf" /\ pc = "exit" /\ pdf = <<>>) => out_files = <<>>

\* C9 as stated: a run that ends on a missing file has written nothing: the
\* extractor none of its artifacts, fix-page-numbers.py no embedded file.
C9_NoOutputOnMissingFile ==
  /\ ExtractorWroteNothingWithoutPdf
  /\ EndedOnMissingFile => writes = <<>>

\* C9 amended: the extractor writes none of its artifacts when the PDF path does
\* not exist; a run of fix-page-numbers.py that ends on a missing file of some
\* part has not written the embedded file of that part or of a later part: it
\* has written the embedded files of the parts before it, which a run on "all"
\* processed before it met the missing file.
C9_NoOutputFromFailingPartOn ==
  /\ ExtractorWroteNothingWithoutPdf
  /\ EndedOnMissingFile =>
       /\ part_i <= Len(parts)
       /\ ~PartPresent(parts[part_i])
       /\ writes = SubSeq(parts, 1, part_i - 1)

\* A run that ended on a missing file after it had rewritten an embedded file.
C9_Witness == EndedOnMissingFile /\ writes # <<>>

=============================================================================
